---- MODULE Spec2Model ----
(***************************************************************************)
(* EnrootEnvironment (src/minisweagent/environments/enroot.py): one        *)
(* adapter object, the external enroot invocations it makes, and the       *)
(* staging directory it owns.                                              *)
(*                                                                         *)
(* Optional values (a keyword argument that may be absent, Python's None   *)
(* for an int) are sequences: << >> is "absent / None", <<v>> is v.        *)
(* Attributes of self that hold strings use the strings None and UNSET     *)
(* (UNSET: the attribute was never assigned, so getattr falls back).       *)
(***************************************************************************)
EXTENDS Integers, Sequences, FiniteSets, TLC

\* ---------------------------------------------------------------- bounds
\* largest timeout value a caller passes (config timeout, execute override)
MaxTimeout == 1
\* longest finite run time of an external process
MaxDur == 1
\* largest exit status of an external process
MaxExit == 1
\* number of execute / cleanup / get_template_vars calls after construction
MaxOps == 2
\* longest forward_env list a configuration carries
MaxFwd == 2

\* ------------------------------------------------------ program constants
DefaultTimeout == 30
DefaultImportTimeout == 300
DefaultCreateTimeout == 120
RemoveTimeout == 30

None == "None"
UNSET == "UNSET"

\* uuid.uuid4().hex[:8]
Ids == {"0a1b2c3d", "deadbeef"}
\* the random part of the mkdtemp name
TmpSuffixes == {"x7k2m9qp"}

\* ------------------------------------------------------------ inputs
Images == {<< >>, <<"">>, <<"docker://python:3.11-slim">>}
TimeoutArgs == {<< >>} \cup {<<t>> : t \in (-1)..MaxTimeout}
SetupTimeoutArgs == {<< >>, <<-1>>}
\* Keyword arguments of the lifecycle runs: the fields that shape the start
\* command line are left to their defaults.
Kwargs == [image : Images, timeout : TimeoutArgs,
           import_timeout : SetupTimeoutArgs, create_timeout : SetupTimeoutArgs,
           cwd : {<< >>}, env : {<< >>}, forward_env : {<< >>},
           writable : {<< >>}, root : {<< >>}]

\* Variable names and values; a dict[str, str] is the sequence of its
\* <<key, value>> items in iteration (insertion) order, keys distinct.
Names == {"A", "B"}
EnvValues == {"c"}
HostValues == {"", "h"}
Items == Names \X EnvValues
EnvMaps ==
  {<< >>} \cup {<<i>> : i \in Items}
         \cup {p \in Items \X Items : p[1][1] # p[2][1]}
RECURSIVE SeqsUpTo(_, _)
SeqsUpTo(S, n) ==
  IF n = 0 THEN {<< >>}
  ELSE LET shorter == SeqsUpTo(S, n - 1)
       IN  shorter \cup {Append(q, x) : q \in shorter, x \in S}
FwdLists == SeqsUpTo(Names, MaxFwd)
\* os.environ: each name is absent (<< >>) or set to a value
Environs == [Names -> {<< >>} \cup {<<v>> : v \in HostValues}]
Cwds == {"", "/", "/work", "/tmp"}
Commands == {"pwd"}

\* Keyword arguments of the command-line runs: every field that shapes the
\* start command line varies (an absent field takes its default, so the
\* default value itself is not passed again), the timeouts keep their
\* defaults.
KwargsCmd ==
  [image : {<<"docker://python:3.11-slim">>}, timeout : {<< >>},
   import_timeout : {<< >>}, create_timeout : {<< >>},
   cwd : {<< >>} \cup {<<d>> : d \in Cwds \ {"/"}},
   env : {<< >>} \cup {<<m>> : m \in EnvMaps \ {<< >>}},
   forward_env : {<< >>} \cup {<<f>> : f \in FwdLists \ {<< >>}},
   writable : {<< >>, <<FALSE>>}, root : {<< >>, <<TRUE>>}]

\* An external process: whether spawning it fails (the executable is
\* missing, fork fails), how long it runs
\* (Forever: longer than every timeout), its exit status, and which way the
\* race goes when it exits exactly as the timeout elapses.
Forever == DefaultImportTimeout + MaxTimeout + 1
\* Fields that cannot matter are fixed: a process that cannot be spawned
\* has no run time or exit status, one that runs forever never exits.
Procs ==
  {p \in [nospawn : BOOLEAN, dur : (0..MaxDur) \cup {Forever},
          rc : 0..MaxExit, race : BOOLEAN] :
     (p.nospawn \/ p.dur = Forever) => (p.dur = Forever /\ p.rc = 0 /\ ~p.race)}
\* The remove invocation's timeout is the constant RemoveTimeout, so its run
\* time matters only by whether it exceeds that.
RemoveProcs == {p \in Procs : p.dur \in {0, Forever} /\ ~p.race}

VARIABLES
  phase,           \* "uninitialized" | "ready" | "failed": how __init__ ended
  config,          \* self.config: << >> (never assigned) or <<record>>
  container_name,  \* self.container_name: UNSET, None or the generated name
  temp_dir,        \* self.temp_dir: UNSET or the mkdtemp path
  sqsh_path,       \* self.sqsh_path: UNSET, None or the artifact path
  calls,           \* external invocations attempted so far, in order
  dirExists,       \* the staging directory exists on disk
  last,            \* the last call on the adapter and how it ended
  cleaned,         \* cleanup has been entered at least once
  destroyed,       \* __del__ has run: the object is gone
  nOps,            \* calls made after construction
  kwargs,          \* what the caller passed to the constructor: << >> before it
  environ,         \* os.environ of the host process
  threads          \* per caller inside execute: where it is and its locals

vars == <<phase, config, container_name, temp_dir, sqsh_path, calls,
          dirExists, last, cleaned, destroyed, nOps, kwargs, environ, threads>>

\* ------------------------------------------------------- configuration
OrDefault(arg, default) == IF arg = << >> THEN default ELSE arg[1]

\* config_class(**kwargs): pydantic checks presence and type only; image is
\* the one required field. << >> stands for the ValidationError.
ConfigFields(kw, image) ==
  [image |-> image,
   cwd |-> OrDefault(kw.cwd, "/"),
   env |-> OrDefault(kw.env, << >>),
   forward_env |-> OrDefault(kw.forward_env, << >>),
   timeout |-> OrDefault(kw.timeout, DefaultTimeout),
   executable |-> "enroot",
   import_timeout |-> OrDefault(kw.import_timeout, DefaultImportTimeout),
   create_timeout |-> OrDefault(kw.create_timeout, DefaultCreateTimeout),
   writable |-> OrDefault(kw.writable, TRUE),
   root |-> OrDefault(kw.root, FALSE)]
ConfigClass_DefaultImage(kw) == << ConfigFields(kw, OrDefault(kw.image, "")) >>
ConfigClass(kw) ==
  IF kw.image = << >> THEN << >> ELSE << ConfigFields(kw, kw.image[1]) >>

\* ------------------------------------------------------- subprocess.run
Expired(proc, timeout) ==
  \/ proc.dur > timeout
  \/ proc.dur = timeout /\ proc.race

\* subprocess.run(cmd, check=check, timeout=timeout): the exception raised
\* ("None": none) and the completed process's return code.
Run(proc, timeout, check) ==
  IF proc.nospawn THEN [exc |-> "OSError", returncode |-> << >>]
  ELSE IF Expired(proc, timeout) THEN [exc |-> "TimeoutExpired", returncode |-> << >>]
  ELSE IF check /\ proc.rc # 0 THEN [exc |-> "CalledProcessError", returncode |-> <<proc.rc>>]
  ELSE [exc |-> "None", returncode |-> <<proc.rc>>]

\* One entry of the invocation log: the subcommand, the container name or
\* artifact path it names, and how the invocation ended.
Call(op, name, res) ==
  [op |-> op, name |-> name, exc |-> res.exc, returncode |-> res.returncode]
Spawned(call) == call.exc # "OSError"

CountOp(log, op) == Cardinality({i \in DOMAIN log : log[i].op = op})

\* ------------------------------------------------------ _setup_container
ContainerName(unique_id) == "minisweagent-" \o unique_id
TempDir(suffix) == "/tmp/minisweagent-enroot-" \o suffix
SqshPath(td, cn) == td \o "/" \o cn \o ".sqsh"

\* Whether _setup_container goes on to create after import ended with exc:
\* check=True and the timeout make every failure raise out of the method.
ProceedToCreate_NoCheck(importExc) == importExc \in {"None", "CalledProcessError"}
ProceedToCreate(importExc) == importExc = "None"

\* Variants of _setup_container the source does not implement: one that runs
\* import a second time when the first exits non-zero, one that hands create
\* the bare identifier instead of the stored name.
SetupContainer_Retry(cfg, unique_id, suffix, mkFails, pImport, pCreate) ==
  LET cn == ContainerName(unique_id)
      td == TempDir(suffix)
      sq == SqshPath(td, cn)
      ri == Run(pImport, cfg.import_timeout, TRUE)
      rc == Run(pCreate, cfg.create_timeout, TRUE)
      ci == Call("import", sq, ri)
      cc == Call("create", cn, rc)
  IN  IF mkFails
      THEN [container_name |-> cn, temp_dir |-> UNSET, sqsh_path |-> None,
            calls |-> << >>, exc |-> "OSError"]
      ELSE IF ri.exc = "CalledProcessError"
      THEN [container_name |-> cn, temp_dir |-> td, sqsh_path |-> sq,
            calls |-> <<ci, ci>>, exc |-> ri.exc]
      ELSE IF ~ProceedToCreate(ri.exc)
      THEN [container_name |-> cn, temp_dir |-> td, sqsh_path |-> sq,
            calls |-> <<ci>>, exc |-> ri.exc]
      ELSE [container_name |-> cn, temp_dir |-> td, sqsh_path |-> sq,
            calls |-> <<ci, cc>>, exc |-> rc.exc]
SetupContainer_CreateById(cfg, unique_id, suffix, mkFails, pImport, pCreate) ==
  LET cn == ContainerName(unique_id)
      td == TempDir(suffix)
      sq == SqshPath(td, cn)
      ri == Run(pImport, cfg.import_timeout, TRUE)
      rc == Run(pCreate, cfg.create_timeout, TRUE)
      ci == Call("import", sq, ri)
      cc == Call("create", unique_id, rc)
  IN  IF mkFails
      THEN [container_name |-> cn, temp_dir |-> UNSET, sqsh_path |-> None,
            calls |-> << >>, exc |-> "OSError"]
      ELSE IF ~ProceedToCreate(ri.exc)
      THEN [container_name |-> cn, temp_dir |-> td, sqsh_path |-> sq,
            calls |-> <<ci>>, exc |-> ri.exc]
      ELSE [container_name |-> cn, temp_dir |-> td, sqsh_path |-> sq,
            calls |-> <<ci, cc>>, exc |-> rc.exc]

\* _setup_container: the attributes it leaves, the invocations it made and
\* the exception it raised. The name is stored on self before the staging
\* directory is made (mkFails: tempfile.mkdtemp raised) and import runs.
SetupContainer(cfg, unique_id, suffix, mkFails, pImport, pCreate) ==
  LET cn == ContainerName(unique_id)
      td == TempDir(suffix)
      sq == SqshPath(td, cn)
      ri == Run(pImport, cfg.import_timeout, TRUE)
      rc == Run(pCreate, cfg.create_timeout, TRUE)
      ci == Call("import", sq, ri)
      cc == Call("create", cn, rc)
  IN  IF mkFails
      THEN [container_name |-> cn, temp_dir |-> UNSET, sqsh_path |-> None,
            calls |-> << >>, exc |-> "OSError"]
      ELSE IF ~ProceedToCreate(ri.exc)
      THEN [container_name |-> cn, temp_dir |-> td, sqsh_path |-> sq,
            calls |-> <<ci>>, exc |-> ri.exc]
      ELSE [container_name |-> cn, temp_dir |-> td, sqsh_path |-> sq,
            calls |-> <<ci, cc>>, exc |-> rc.exc]

\* ---------------------------------------------------------------- execute
\* assert self.container_name
ReadyCheck(cn) == cn # UNSET /\ cn # None /\ cn # ""

\* timeout or self.config.timeout
EffectiveTimeout(timeout, cfg) ==
  IF timeout # << >> /\ timeout[1] # 0 THEN timeout[1] ELSE cfg.timeout

\* execute's subprocess.run passes no check=True
ExecuteCheck_Raising == TRUE
ExecuteCheck == FALSE

\* os.getenv(key): << >> is None
Getenv_DefaultEmpty(env, key) == IF env[key] = << >> THEN <<"">> ELSE env[key]
Getenv(env, key) == env[key]
\* f"{key}={value}"
EnvArg(key, value) == key \o "=" \o value

\* for key in self.config.forward_env: ... cmd.extend(["--env", ...])
RECURSIVE ForwardArgs(_, _)
ForwardArgs(fwd, env) ==
  IF fwd = << >> THEN << >>
  ELSE LET value == Getenv(env, Head(fwd))
       IN  (IF value # << >> THEN <<"--env", EnvArg(Head(fwd), value[1])>> ELSE << >>)
           \o ForwardArgs(Tail(fwd), env)

\* for key, value in self.config.env.items(): cmd.extend(["--env", ...])
RECURSIVE ConfigEnvArgs(_)
ConfigEnvArgs(items) ==
  IF items = << >> THEN << >>
  ELSE <<"--env", EnvArg(Head(items)[1], Head(items)[2])>> \o ConfigEnvArgs(Tail(items))

\* the two loops in the order they run: forwarded first, configured after
EnvArgs_ConfigFirst(cfg, env) == ConfigEnvArgs(cfg.env) \o ForwardArgs(cfg.forward_env, env)
EnvArgs(cfg, env) == ForwardArgs(cfg.forward_env, env) \o ConfigEnvArgs(cfg.env)

\* if self.config.writable: --rw; if self.config.root: --root
Flags_RootFirst(cfg) ==
  (IF cfg.root THEN <<"--root">> ELSE << >>) \o (IF cfg.writable THEN <<"--rw">> ELSE << >>)
Flags(cfg) ==
  (IF cfg.writable THEN <<"--rw">> ELSE << >>) \o (IF cfg.root THEN <<"--root">> ELSE << >>)

\* work_dir = cwd or self.config.cwd
WorkDir_ConfigFirst(cwd, cfg) == IF cfg.cwd # "" THEN cfg.cwd ELSE cwd
WorkDir(cwd, cfg) == IF cwd # "" THEN cwd ELSE cfg.cwd

\* if work_dir and work_dir != "/": cd work_dir && command
FullCommand(work_dir, command) ==
  IF work_dir # "" /\ work_dir # "/"
  THEN "cd " \o work_dir \o " && " \o command
  ELSE command

\* cmd as execute hands it to subprocess.run
StartCmd(cn, cfg, env, command, cwd) ==
  <<cfg.executable, "start">> \o Flags(cfg) \o EnvArgs(cfg, env) \o <<cn>>
    \o <<"bash", "-c", FullCommand(WorkDir(cwd, cfg), command)>>

\* execute assigns no attribute of self: the name it leaves is the one it found
NameAfterExecute_ResetOnTimeout(cn, exc) == IF exc = "TimeoutExpired" THEN None ELSE cn
NameAfterExecute(cn, exc) == cn

\* execute(command, cwd, timeout=timeout) with the start process behaving
\* as proc: the invocation made (if any), the exception and the record
\* returned.
ExecuteBody(cn, cfg, env, command, cwd, timeout, proc) ==
  IF ~ReadyCheck(cn)
  THEN [calls |-> << >>, exc |-> "AssertionError", value |-> << >>, timeout |-> << >>,
        cmd |-> << >>]
  ELSE LET eff == EffectiveTimeout(timeout, cfg)
           r == Run(proc, eff, ExecuteCheck)
       IN  [calls |-> << Call("start", cn, r) >>,
            exc |-> r.exc,
            value |-> IF r.exc = "None"
                      THEN << [returncode |-> r.returncode[1]] >> ELSE << >>,
            timeout |-> <<eff>>,
            cmd |-> StartCmd(cn, cfg, env, command, cwd)]

\* ---------------------------------------------------------------- cleanup
\* getattr(self, "container_name", None) is not None
RemoveGuard(cn) == cn # UNSET /\ cn # None
\* getattr(self, "temp_dir", None) is not None
RmtreeGuard(td) == td # UNSET /\ td # None
\* except (subprocess.CalledProcessError, subprocess.TimeoutExpired)
CleanupCaught(exc) == exc \in {"CalledProcessError", "TimeoutExpired"}

\* cleanup() with the remove process behaving as proc: the invocation made,
\* the exception that left cleanup, and whether shutil.rmtree was reached.
CleanupBody(cn, td, proc) ==
  LET r == Run(proc, RemoveTimeout, FALSE)
      escapes == RemoveGuard(cn) /\ r.exc # "None" /\ ~CleanupCaught(r.exc)
  IN  [calls |-> IF RemoveGuard(cn) THEN << Call("remove", cn, r) >> ELSE << >>,
       exc |-> IF escapes THEN r.exc ELSE "None",
       rmtree |-> ~escapes /\ RmtreeGuard(td)]

\* ------------------------------------------------------------------ state
\* The last call on the adapter: its name, the exception it raised ("None":
\* it returned), the value returned, for execute the timeout argument, the
\* timeout applied, the start process's behaviour and the argument list
\* built, for cleanup whether rmtree ran.
NoProc == [nospawn |-> TRUE, dur |-> Forever, rc |-> 0, race |-> FALSE]
Result(op, exc, value, arg, timeout, proc, rmtree, cmd) ==
  [op |-> op, exc |-> exc, value |-> value, arg |-> arg, timeout |-> timeout,
   proc |-> proc, rmtree |-> rmtree, cmd |-> cmd]
\* the arguments of an execute call
Args(command, cwd, timeout) == [command |-> command, cwd |-> cwd, timeout |-> timeout]
NoEnviron == [n \in Names |-> << >>]
\* The callers that may be inside execute at the same time, and a caller
\* that is not: pc is its position, arg its arguments, cmd the argument list
\* built so far, res how its call ended.
Callers == {"t1", "t2"}
Idle == [pc |-> "idle", arg |-> << >>, cmd |-> << >>, res |-> << >>]
NoCallers == [t \in Callers |-> Idle]

Init ==
  /\ phase = "uninitialized"
  /\ config = << >>
  /\ container_name = UNSET
  /\ temp_dir = UNSET
  /\ sqsh_path = UNSET
  /\ calls = << >>
  /\ dirExists = FALSE
  /\ last = Result("none", "None", << >>, << >>, << >>, NoProc, FALSE, << >>)
  /\ cleaned = FALSE
  /\ destroyed = FALSE
  /\ nOps = 0
  /\ kwargs = << >>
  /\ environ = NoEnviron
  /\ threads = NoCallers

\* EnrootEnvironment(**kwargs)
Construct ==
  /\ phase = "uninitialized"
  /\ \E kw \in Kwargs, unique_id \in Ids, suffix \in TmpSuffixes, mkFails \in BOOLEAN,
        pImport \in Procs, pCreate \in Procs :
       LET c == ConfigClass(kw) IN
       /\ kwargs' = <<kw>>
       /\ IF c = << >>
          THEN /\ phase' = "failed"
               /\ last' = Result("__init__", "ValidationError", << >>, << >>, << >>, NoProc, FALSE, << >>)
               /\ UNCHANGED <<config, container_name, temp_dir, sqsh_path, calls, dirExists>>
          ELSE LET s == SetupContainer(c[1], unique_id, suffix, mkFails, pImport, pCreate) IN
               /\ config' = c
               /\ container_name' = s.container_name
               /\ temp_dir' = s.temp_dir
               /\ sqsh_path' = s.sqsh_path
               /\ calls' = s.calls
               /\ dirExists' = ~mkFails
               /\ phase' = IF s.exc = "None" THEN "ready" ELSE "failed"
               /\ last' = Result("__init__", s.exc, << >>, << >>, << >>, NoProc, FALSE, << >>)
  /\ UNCHANGED <<cleaned, destroyed, nOps, environ, threads>>

\* env.execute(command, cwd, timeout=timeout) by the holder of a constructed
\* adapter, the arguments drawn from the given sets
ExecuteWith(commands, cwds, timeouts, procs) ==
  /\ phase = "ready" /\ ~destroyed /\ nOps < MaxOps
  /\ \E command \in commands, cwd \in cwds, timeout \in timeouts, proc \in procs :
       LET e == ExecuteBody(container_name, config[1], environ, command, cwd, timeout, proc) IN
       /\ calls' = calls \o e.calls
       /\ container_name' = NameAfterExecute(container_name, e.exc)
       /\ last' = Result("execute", e.exc, e.value, Args(command, cwd, timeout), e.timeout,
                         IF e.calls = << >> THEN NoProc ELSE proc, FALSE, e.cmd)
  /\ nOps' = nOps + 1
  /\ UNCHANGED <<phase, config, temp_dir, sqsh_path, dirExists,
                 cleaned, destroyed, kwargs, environ, threads>>

Execute == ExecuteWith(Commands, {""}, TimeoutArgs, Procs)

\* What a run of cleanup does to the state; rmOk: shutil.rmtree managed to
\* delete the directory (its errors are ignored either way).
CleanupEffect(op, proc, rmOk) ==
  LET c == CleanupBody(container_name, temp_dir, proc) IN
  /\ calls' = calls \o c.calls
  /\ dirExists' = IF c.rmtree /\ rmOk THEN FALSE ELSE dirExists
  /\ last' = Result(op, c.exc, << >>, << >>, << >>, NoProc, c.rmtree, << >>)
  /\ cleaned' = TRUE
  /\ UNCHANGED <<phase, config, container_name, temp_dir, sqsh_path, kwargs, environ,
                 threads>>

\* env.cleanup() by the holder of a constructed adapter
Cleanup ==
  /\ phase = "ready" /\ ~destroyed /\ nOps < MaxOps
  /\ \E proc \in RemoveProcs, rmOk \in BOOLEAN : CleanupEffect("cleanup", proc, rmOk)
  /\ nOps' = nOps + 1
  /\ UNCHANGED destroyed

\* __del__: the last reference is dropped (right after a constructor that
\* raised, or whenever the holder lets go). last.exc is what cleanup raised
\* inside it; the interpreter reports and drops it.
Del ==
  /\ phase # "uninitialized" /\ ~destroyed
  /\ \E proc \in RemoveProcs, rmOk \in BOOLEAN : CleanupEffect("__del__", proc, rmOk)
  /\ destroyed' = TRUE
  /\ UNCHANGED nOps

\* self.config.model_dump(): every field of the configuration, by name
ModelDump_ClassDefaults(cfg) == [cfg EXCEPT !.cwd = "/", !.env = << >>]
ModelDump(cfg) == cfg

\* env.get_template_vars()
GetTemplateVars ==
  /\ phase = "ready" /\ ~destroyed /\ nOps < MaxOps
  /\ last' = Result("get_template_vars", "None", << ModelDump(config[1]) >>, << >>, << >>,
                    NoProc, FALSE, << >>)
  /\ nOps' = nOps + 1
  /\ UNCHANGED <<phase, config, container_name, temp_dir, sqsh_path, calls,
                 dirExists, cleaned, destroyed, kwargs, environ, threads>>

Next ==
  \/ Construct
  \/ Execute
  \/ Cleanup
  \/ Del
  \/ GetTemplateVars

Spec == Init /\ [][Next]_vars

\* ------------------------------------------------- command-line runs
\* An external process that starts, exits at once and reports success.
OkProc == [nospawn |-> FALSE, dur |-> 0, rc |-> 0, race |-> FALSE]

\* A ready adapter just constructed from any of the command-line keyword
\* arguments, under any host environment.
InitCmd ==
  \E kw \in KwargsCmd, suffix \in TmpSuffixes, env \in Environs :
    LET c == ConfigClass(kw)
        s == SetupContainer(c[1], CHOOSE id \in Ids : TRUE, suffix, FALSE, OkProc, OkProc)
    IN  /\ phase = "ready"
        /\ config = c
        /\ container_name = s.container_name
        /\ temp_dir = s.temp_dir
        /\ sqsh_path = s.sqsh_path
        /\ calls = s.calls
        /\ dirExists = TRUE
        /\ last = Result("__init__", s.exc, << >>, << >>, << >>, NoProc, FALSE, << >>)
        /\ cleaned = FALSE
        /\ destroyed = FALSE
        /\ nOps = 0
        /\ kwargs = <<kw>>
        /\ environ = env
        /\ threads = NoCallers

\* the first call on the adapter: an execute with any working directory
ExecuteCmd == nOps = 0 /\ ExecuteWith(Commands, Cwds, {<< >>}, {OkProc})
\* the first call on the adapter: cleanup
CleanupCmd == nOps = 0 /\ Cleanup

NextCmd ==
  \/ ExecuteCmd
  \/ CleanupCmd
  \/ GetTemplateVars

SpecCmd == InitCmd /\ [][NextCmd]_vars

\* ------------------------------------------------- overlapping executes
\* Two callers share one ready adapter and each calls execute once. A step
\* is a stretch of execute between two reads of self; the other caller may
\* run between any two steps.
CommandsConc == {"pwd", "ls"}
CwdsConc == {"", "/tmp"}
TimeoutsConc == {<< >>, <<MaxTimeout>>}
ProcsConc == {p \in Procs : ~p.nospawn /\ ~p.race /\ p.dur \in {0, Forever}}
KwargsConc ==
  {kw \in KwargsCmd : /\ kw.forward_env = << <<"A">> >>
                      /\ kw.env = << << <<"B", "c">> >> >>
                      /\ kw.writable = << >> /\ kw.root = <<TRUE>>}

InitConc ==
  \E kw \in KwargsConc, suffix \in TmpSuffixes, env \in {e \in Environs : e["B"] = << >>} :
    LET c == ConfigClass(kw)
        s == SetupContainer(c[1], CHOOSE id \in Ids : TRUE, suffix, FALSE, OkProc, OkProc)
    IN  /\ phase = "ready"
        /\ config = c
        /\ container_name = s.container_name
        /\ temp_dir = s.temp_dir
        /\ sqsh_path = s.sqsh_path
        /\ calls = s.calls
        /\ dirExists = TRUE
        /\ last = Result("__init__", s.exc, << >>, << >>, << >>, NoProc, FALSE, << >>)
        /\ cleaned = FALSE
        /\ destroyed = FALSE
        /\ nOps = 0
        /\ kwargs = <<kw>>
        /\ environ = env
        /\ threads = NoCallers

\* callers inside execute other than t
Inside(t) == {u \in Callers \ {t} : threads[u].pc \notin {"idle", "done"}}

\* How caller t's execute ended: out is what ExecuteBody describes for a
\* whole call, proc the start process's behaviour, during the callers that
\* were inside execute at that moment.
Ended(t, arg, out, proc) ==
  [pc |-> "done", arg |-> <<arg>>, cmd |-> out.cmd,
   res |-> << [out |-> out, proc |-> proc, during |-> Inside(t)] >>]

\* line 96: the call is entered and the assertion reads self.container_name
BeginExecute(t) ==
  /\ threads[t].pc = "idle" /\ phase = "ready" /\ ~destroyed
  /\ \E command \in CommandsConc, cwd \in CwdsConc, timeout \in TimeoutsConc :
       LET arg == Args(command, cwd, timeout) IN
       IF ReadyCheck(container_name)
       THEN /\ threads' = [threads EXCEPT ![t] =
                             [pc |-> "options", arg |-> <<arg>>, cmd |-> << >>, res |-> << >>]]
            /\ UNCHANGED last
       ELSE LET out == [calls |-> << >>, exc |-> "AssertionError", value |-> << >>,
                        timeout |-> << >>, cmd |-> << >>] IN
            /\ threads' = [threads EXCEPT ![t] = Ended(t, arg, out, NoProc)]
            /\ last' = Result("execute", out.exc, out.value, arg, out.timeout, NoProc, FALSE, out.cmd)
  /\ nOps' = nOps + 1
  /\ UNCHANGED <<phase, config, container_name, temp_dir, sqsh_path, calls, dirExists,
                 cleaned, destroyed, kwargs, environ>>

\* lines 98-115: executable, subcommand, flags and --env pairs, from
\* self.config and the host environment
BuildOptions(t) ==
  /\ threads[t].pc = "options"
  /\ threads' = [threads EXCEPT ![t].pc = "name",
                                ![t].cmd = <<config[1].executable, "start">>
                                             \o Flags(config[1]) \o EnvArgs(config[1], environ)]
  /\ UNCHANGED <<phase, config, container_name, temp_dir, sqsh_path, calls, dirExists,
                 last, cleaned, destroyed, nOps, kwargs, environ>>

\* line 117: cmd.append(self.container_name), the second read of the name
AppendName(t) ==
  /\ threads[t].pc = "name"
  /\ threads' = [threads EXCEPT ![t].pc = "wrap",
                                ![t].cmd = threads[t].cmd \o <<container_name>>]
  /\ UNCHANGED <<phase, config, container_name, temp_dir, sqsh_path, calls, dirExists,
                 last, cleaned, destroyed, nOps, kwargs, environ>>

\* lines 120-126: the working directory and the shell command
WrapCommand(t) ==
  /\ threads[t].pc = "wrap"
  /\ LET arg == threads[t].arg[1] IN
     threads' = [threads EXCEPT ![t].pc = "run",
                                ![t].cmd = threads[t].cmd \o
                                  <<"bash", "-c",
                                    FullCommand(WorkDir(arg.cwd, config[1]), arg.command)>>]
  /\ UNCHANGED <<phase, config, container_name, temp_dir, sqsh_path, calls, dirExists,
                 last, cleaned, destroyed, nOps, kwargs, environ>>

\* lines 128-137: the start process is run on the argument list built,
\* under timeout or self.config.timeout, and the call ends
RunStart(t) ==
  /\ threads[t].pc = "run"
  /\ \E proc \in ProcsConc :
       LET arg == threads[t].arg[1]
           cmd == threads[t].cmd
           eff == EffectiveTimeout(arg.timeout, config[1])
           r == Run(proc, eff, ExecuteCheck)
           out == [calls |-> << Call("start", cmd[Len(cmd) - 3], r) >>,
                   exc |-> r.exc,
                   value |-> IF r.exc = "None"
                             THEN << [returncode |-> r.returncode[1]] >> ELSE << >>,
                   timeout |-> <<eff>>,
                   cmd |-> cmd]
       IN  /\ calls' = calls \o out.calls
           /\ container_name' = NameAfterExecute(container_name, out.exc)
           /\ last' = Result("execute", out.exc, out.value, arg, out.timeout, proc, FALSE, out.cmd)
           /\ threads' = [threads EXCEPT ![t] = Ended(t, arg, out, proc)]
  /\ UNCHANGED <<phase, config, temp_dir, sqsh_path, dirExists,
                 cleaned, destroyed, nOps, kwargs, environ>>

NextConc ==
  \E t \in Callers :
    \/ BeginExecute(t)
    \/ BuildOptions(t)
    \/ AppendName(t)
    \/ WrapCommand(t)
    \/ RunStart(t)

SpecConc == InitConc /\ [][NextConc]_vars

\* ------------------------------------------------------------ properties
IsCleanup(r) == r.op \in {"cleanup", "__del__"}
\* remove invocations that ran the external tool
Removes == Cardinality({i \in DOMAIN calls : calls[i].op = "remove" /\ Spawned(calls[i])})

\* C1: an execute made after cleanup has run fails with an assertion error
\* and spawns no start process; no start invocation ever follows a remove.
C1_ExecuteAfterCleanupFails ==
  /\ (last.op = "execute" /\ cleaned) => last.exc = "AssertionError"
  /\ \A i, j \in DOMAIN calls :
       (i < j /\ calls[i].op = "remove") => calls[j].op # "start"

\* C2: construction is all-or-nothing: the container name that execute's
\* ready check tests is non-empty only if import and create both succeeded,
\* and when they did it is non-empty.
C2_AllOrNothing ==
  phase # "uninitialized" =>
    (ReadyCheck(container_name) <=> phase = "ready")

\* C3: cleanup never raises, whatever state the adapter is in and whatever
\* the remove invocation does.
C3_CleanupNeverRaises ==
  IsCleanup(last) => last.exc = "None"

\* C4: when a staging directory was created, every cleanup call gets to the
\* directory-deletion step, whatever the remove invocation did.
C4_DeletionStepAlwaysRuns ==
  (IsCleanup(last) /\ temp_dir # UNSET) => last.rmtree

\* C5: cleanup issues a remove invocation only if the create step completed
\* successfully.
C5_RemoveOnlyIfCreated ==
  Removes > 0 => phase = "ready"

\* C6: over the adapter's lifetime the remove operation is invoked at most
\* once.
C6_RemoveAtMostOnce ==
  Removes <= 1

\* C7: create is invoked only as the second invocation, after an import
\* that exited 0 within its timeout; when import fails, create is never
\* invoked, construction raises the import's failure and the adapter is not
\* ready.
C7_CreateOnlyAfterImportOk ==
  /\ \A i \in DOMAIN calls :
       calls[i].op = "create" =>
         /\ i = 2
         /\ calls[1].op = "import"
         /\ calls[1].exc = "None"
         /\ calls[1].returncode = <<0>>
  /\ (calls # << >> /\ (calls[1].exc # "None" \/ calls[1].returncode # <<0>>)) =>
       /\ CountOp(calls, "create") = 0
       /\ phase = "failed"
       /\ last.op = "__init__" => last.exc = calls[1].exc

C7_ImportFailed ==
  /\ last.op = "__init__"
  /\ phase = "failed"
  /\ Len(calls) = 1
  /\ calls[1].op = "import"
  /\ calls[1].exc \in {"CalledProcessError", "TimeoutExpired"}

NegativeTimeout(kw) ==
  \E t \in {kw.timeout, kw.import_timeout, kw.create_timeout} : t # << >> /\ t[1] < 0

\* C8 as stated: with an empty image or a negative timeout, construction
\* fails before the import operation is run.
C8_NoSpawnForInvalidValues ==
  (kwargs # << >> /\ (kwargs[1].image = <<"">> \/ NegativeTimeout(kwargs[1]))) =>
    (phase = "failed" /\ \A i \in DOMAIN calls : calls[i].op = "import" => ~Spawned(calls[i]))

\* C8 amended: construction fails before any external command is invoked
\* when the configuration type rejects the arguments (the required image is
\* missing); every other configuration, an empty image or negative timeouts
\* included, is accepted, and once the staging directory is made the import
\* operation is invoked.
C8_NoSpawnIffConfigRejected ==
  kwargs # << >> =>
    IF kwargs[1].image = << >>
    THEN phase = "failed" /\ config = << >> /\ calls = << >>
    ELSE config # << >> /\ (temp_dir # UNSET => (calls # << >> /\ calls[1].op = "import"))

C8_ConfigRejected ==
  /\ kwargs # << >>
  /\ kwargs[1].image = << >>
  /\ last.op = "__init__"
  /\ last.exc = "ValidationError"
  /\ calls = << >>

\* C9: the timeout applied to an execute call is the override whenever one
\* is supplied, whatever its value, and the configured default otherwise.
C9_OverrideAlwaysWins ==
  (last.op = "execute" /\ last.timeout # << >>) =>
    last.timeout[1] = (IF last.arg.timeout # << >> THEN last.arg.timeout[1]
                       ELSE config[1].timeout)

\* C10: on a ready session, a start process that exits before the effective
\* timeout makes execute return a record with that exit status and raise
\* nothing; one that runs longer makes execute raise a timeout error and
\* return no record.
C10_ExecuteOutcome ==
  (last.op = "execute" /\ last.timeout # << >> /\ ~last.proc.nospawn) =>
    /\ last.proc.dur < last.timeout[1] =>
         (last.exc = "None" /\ last.value = << [returncode |-> last.proc.rc] >>)
    /\ last.proc.dur > last.timeout[1] =>
         (last.exc = "TimeoutExpired" /\ last.value = << >>)

C10_NonZeroExitReturned ==
  /\ last.op = "execute"
  /\ ~last.proc.nospawn
  /\ last.proc.rc # 0
  /\ last.proc.dur < last.timeout[1]
  /\ last.value = << [returncode |-> last.proc.rc] >>

\* C11: an execute call that raises a timeout error leaves the session
\* ready: container name, staging directory and artifact path are unchanged
\* and no remove is issued; every start invocation, before or after a
\* timeout, names the container that create was given.
C11_TimeoutLeavesSessionReady ==
  /\ [][(last'.op = "execute" /\ last'.exc = "TimeoutExpired" /\ nOps' = nOps + 1) =>
          /\ phase' = "ready"
          /\ ReadyCheck(container_name')
          /\ container_name' = container_name
          /\ temp_dir' = temp_dir
          /\ sqsh_path' = sqsh_path
          /\ dirExists' = dirExists
          /\ CountOp(calls', "remove") = CountOp(calls, "remove")]_vars
  /\ [](\A i \in DOMAIN calls :
          calls[i].op = "start" =>
            (calls[2].op = "create" /\ calls[i].name = calls[2].name))

\* a timed-out execute followed by an execute on the same container that
\* returned a record
C11_ReusedAfterTimeout ==
  /\ last.op = "execute"
  /\ last.exc = "None"
  /\ last.value # << >>
  /\ \E i \in DOMAIN calls :
       /\ i < Len(calls)
       /\ calls[i].op = "start"
       /\ calls[i].exc = "TimeoutExpired"
       /\ calls[Len(calls)].op = "start"
       /\ calls[Len(calls)].name = calls[i].name

\* ---- reading a start command line back, as the external tool does
\* the arguments that follow each --env, in order
RECURSIVE EnvEntries(_)
EnvEntries(c) ==
  IF Len(c) < 2 THEN << >>
  ELSE IF Head(c) = "--env" THEN <<c[2]>> \o EnvEntries(SubSeq(c, 3, Len(c)))
  ELSE EnvEntries(Tail(c))
AllValues == EnvValues \cup HostValues
\* the name and the value of a NAME=value argument
EntryName(e) == CHOOSE k \in Names : \E v \in AllValues : e = k \o "=" \o v
EntryValue(e) == CHOOSE v \in AllValues : \E k \in Names : e = k \o "=" \o v
\* what the container sees for a name: the last --env given for it wins
ContainerSees(c, k) ==
  LET E == EnvEntries(c)
      at == {i \in DOMAIN E : EntryName(E[i]) = k}
  IN  IF at = {} THEN << >>
      ELSE << EntryValue(E[CHOOSE i \in at : \A j \in at : j <= i]) >>
Built == last.op = "execute" /\ last.cmd # << >>
InEnv(k) == \E j \in DOMAIN config[1].env : config[1].env[j][1] = k
EnvOf(k) == config[1].env[CHOOSE j \in DOMAIN config[1].env : config[1].env[j][1] = k][2]
InFwd(k) == \E j \in DOMAIN config[1].forward_env : config[1].forward_env[j] = k
OnHost(k) == environ[k] # << >>

\* C12: in the start invocation every --env entry from the overrides
\* mapping comes after every entry from the forward-list, so for a name in
\* both and set on the host the last --env for it carries the mapping's
\* value.
C12_OverridesAfterForwarded ==
  Built =>
    LET E == EnvEntries(last.cmd)
        nCfg == Len(config[1].env)
        nFwd == Len(E) - nCfg
    IN  /\ nFwd >= 0
        /\ \A j \in 1..nCfg :
             /\ EntryName(E[nFwd + j]) = config[1].env[j][1]
             /\ EntryValue(E[nFwd + j]) = config[1].env[j][2]
        /\ \A i \in 1..nFwd :
             /\ InFwd(EntryName(E[i]))
             /\ <<EntryValue(E[i])>> = environ[EntryName(E[i])]
        /\ \A k \in Names :
             (InEnv(k) /\ InFwd(k) /\ OnHost(k)) =>
               ContainerSees(last.cmd, k) = <<EnvOf(k)>>

\* a name in both lists whose host value differs from the mapping's value
C12_ConflictingName ==
  /\ Built
  /\ \E k \in Names :
       /\ InEnv(k) /\ InFwd(k) /\ OnHost(k)
       /\ environ[k] # <<EnvOf(k)>>
       /\ ContainerSees(last.cmd, k) = <<EnvOf(k)>>

\* C13: the forwarded --env entries are exactly the forward-list names that
\* are set on the host, in forward-list order, each with its host value (an
\* empty value gives NAME=); a name not set on the host gives no entry.
C13_ForwardedIffOnHost ==
  Built =>
    LET E == EnvEntries(last.cmd)
        nFwd == Len(E) - Len(config[1].env)
        F == SubSeq(E, 1, nFwd)
        want == SelectSeq(config[1].forward_env, OnHost)
    IN  /\ Len(F) = Len(want)
        /\ \A i \in DOMAIN F :
             /\ EntryName(F[i]) = want[i]
             /\ <<EntryValue(F[i])>> = environ[want[i]]
             /\ F[i] = want[i] \o "=" \o environ[want[i]][1]
        /\ \A k \in Names :
             (InFwd(k) /\ ~OnHost(k) /\ ~InEnv(k)) => ContainerSees(last.cmd, k) = << >>

\* a forward-list with one name set to the empty string and one name unset
C13_EmptyAndAbsent ==
  /\ Built
  /\ \E k, a \in Names :
       /\ InFwd(k) /\ environ[k] = <<"">> /\ ~InEnv(k)
       /\ ContainerSees(last.cmd, k) = <<"">>
       /\ InFwd(a) /\ ~OnHost(a) /\ ~InEnv(a)
       /\ ContainerSees(last.cmd, a) = << >>

\* C14: the working directory is the execute-time override when non-empty,
\* else the configured default; the shell gets cd <dir> && <command> exactly
\* when that directory is neither empty nor /, the bare command otherwise.
C14_WorkingDirectory ==
  Built =>
    LET c == last.cmd
        dir == IF last.arg.cwd # "" THEN last.arg.cwd ELSE config[1].cwd
        wrapped == "cd " \o dir \o " && " \o last.arg.command
    IN  /\ Len(c) >= 3
        /\ c[Len(c) - 2] = "bash"
        /\ c[Len(c) - 1] = "-c"
        /\ (dir # "" /\ dir # "/") <=> c[Len(c)] = wrapped
        /\ (dir = "" \/ dir = "/") <=> c[Len(c)] = last.arg.command

\* an override of / over a configured non-root default: the bare command
C14_RootOverride ==
  /\ Built
  /\ last.arg.cwd = "/"
  /\ config[1].cwd = "/work"
  /\ last.cmd[Len(last.cmd)] = last.arg.command

\* C16: get_template_vars returns without raising a mapping whose image,
\* cwd and env are the values given at construction (defaults where none
\* was given); the call spawns nothing and leaves the configuration, the
\* container name, the staging directory and the artifact path as they were.
C16_TemplateVarsReadOnly ==
  /\ [](last.op = "get_template_vars" =>
          /\ last.exc = "None"
          /\ last.value # << >>
          /\ last.value[1].image = kwargs[1].image[1]
          /\ last.value[1].cwd = (IF kwargs[1].cwd = << >> THEN "/" ELSE kwargs[1].cwd[1])
          /\ last.value[1].env = (IF kwargs[1].env = << >> THEN << >> ELSE kwargs[1].env[1]))
  /\ [][(last'.op = "get_template_vars" /\ nOps' = nOps + 1) =>
          /\ calls' = calls
          /\ config' = config
          /\ phase' = phase
          /\ container_name' = container_name
          /\ temp_dir' = temp_dir
          /\ sqsh_path' = sqsh_path
          /\ dirExists' = dirExists
          /\ environ' = environ]_vars

\* get_template_vars on an adapter built with a working directory and an
\* environment mapping of its own, after cleanup has run
C16_DumpAfterCleanup ==
  /\ last.op = "get_template_vars"
  /\ cleaned
  /\ kwargs[1].cwd = <<"/work">>
  /\ kwargs[1].env # << >>
  /\ last.value[1].cwd = "/work"
  /\ last.value[1].env = kwargs[1].env[1]

\* C18: the start invocation is, in this order: the executable and start,
\* --rw exactly when writable, --root exactly when run-as-root, the --env
\* pairs, the container name, then bash -c and the command.
C18_StartInvocationOrder ==
  Built =>
    LET c == last.cmd
        w == IF config[1].writable THEN 1 ELSE 0
        r == IF config[1].root THEN 1 ELSE 0
        E == EnvEntries(c)
        n == Len(E)
        base == 2 + w + r
    IN  /\ Len(c) = base + 2 * n + 4
        /\ c[1] = config[1].executable
        /\ c[2] = "start"
        /\ \A i \in DOMAIN c : c[i] = "--rw" <=> (config[1].writable /\ i = 3)
        /\ \A i \in DOMAIN c : c[i] = "--root" <=> (config[1].root /\ i = 3 + w)
        /\ \A j \in 1..n : c[base + 2 * j - 1] = "--env" /\ c[base + 2 * j] = E[j]
        /\ \A i \in DOMAIN c : c[i] = "--env" => (i > base /\ i < base + 2 * n)
        /\ c[base + 2 * n + 1] = container_name
        /\ c[base + 2 * n + 2] = "bash"
        /\ c[base + 2 * n + 3] = "-c"
        /\ c[base + 2 * n + 4] \in
             {last.arg.command} \cup {"cd " \o d \o " && " \o last.arg.command : d \in Cwds}

\* a start invocation with both flags and at least one --env pair
C18_BothFlagsAndEnv ==
  /\ Built
  /\ config[1].writable
  /\ config[1].root
  /\ last.cmd[3] = "--rw"
  /\ last.cmd[4] = "--root"
  /\ last.cmd[5] = "--env"
RmtreeTarget == temp_dir
\* the directory an artifact path lies in, read back from the path
DirOf(path) ==
  {TempDir(sfx) : sfx \in {x \in TmpSuffixes : \E id \in Ids :
                             path = SqshPath(TempDir(x), ContainerName(id))}}

\* C19: the name of every start and every remove invocation is the name
\* the create invocation was given, the directory cleanup deletes is the
\* one import wrote its artifact into, and neither the name nor the
\* directory stored on the adapter changes once the constructor is over.
C19_IdentifierFixed ==
  /\ [](/\ \A i, j \in DOMAIN calls :
             (calls[i].op \in {"start", "remove"} /\ calls[j].op = "create")
               => calls[i].name = calls[j].name
        /\ \A i \in DOMAIN calls :
             (IsCleanup(last) /\ last.rmtree /\ calls[i].op = "import")
               => DirOf(calls[i].name) = {RmtreeTarget})
  /\ [][phase # "uninitialized"
          => (container_name' = container_name /\ temp_dir' = temp_dir)]_vars

\* a created container that was started and then removed by cleanup, which
\* went on to delete the staging directory
C19_StartedThenRemoved ==
  /\ phase = "ready" /\ last.op = "cleanup" /\ last.rmtree
  /\ Len(calls) = 4
  /\ calls[2].op = "create" /\ calls[3].op = "start" /\ calls[4].op = "remove"

\* what caller t's execute does when it is the only call on the adapter as
\* constructed, its start process behaving the same way
Alone(t) ==
  LET arg == threads[t].arg[1] IN
  ExecuteBody(calls[2].name, config[1], environ, arg.command, arg.cwd, arg.timeout,
              threads[t].res[1].proc)

\* C17: whatever the interleaving of two execute calls on a ready adapter,
\* each call ends as it would alone (the same start argument list, timeout,
\* exception and returned record), an argument list fully built is the one
\* the call builds alone, and no step of execute changes an adapter field.
C17_NoInterference ==
  /\ [](\A t \in Callers :
          /\ threads[t].pc = "done" => threads[t].res[1].out = Alone(t)
          /\ threads[t].pc = "run"
               => threads[t].cmd = StartCmd(calls[2].name, config[1], environ,
                                            threads[t].arg[1].command, threads[t].arg[1].cwd))
  /\ [][UNCHANGED <<phase, config, container_name, temp_dir, sqsh_path, destroyed>>]_vars

\* both calls are over, they differed in command, directory and timeout, and
\* the first ran its start process, which timed out, while the second was
\* inside execute
C17_OverlappedCalls ==
  /\ threads["t1"].pc = "done" /\ threads["t2"].pc = "done"
  /\ threads["t1"].res[1].during = {"t2"}
  /\ threads["t1"].res[1].out.exc = "TimeoutExpired"
  /\ threads["t2"].res[1].out.exc = "None"
  /\ threads["t1"].arg[1].command # threads["t2"].arg[1].command
  /\ threads["t1"].arg[1].cwd # threads["t2"].arg[1].cwd
  /\ threads["t1"].arg[1].timeout # threads["t2"].arg[1].timeout

====
